---- MODULE Spec2Model ----
(***************************************************************************)
(* Model of the aurelian agents: the lazily built `collection` handle of   *)
(* the dependency objects, the tool functions that use it, and the tools   *)
(* that write files.                                                       *)
(***************************************************************************)
EXTENDS Integers, Sequences, FiniteSets, TLC

\* ---------------------------------------------------------------- bounds
\* reads of the `collection` property modelled in one run, over all objects
MaxAccess == 3
\* length of the longest result list an external search returns
MaxRows == 2
\* tool calls modelled per run of the dependency-object and of the knowledge
\* extraction specification
MaxCalls == 2
\* tool calls modelled per run of the working-directory specification
MaxFileCalls == 3

VARIABLES
    collection,   \* _collection of each dependency object
    clients,      \* number of Client() objects each dependency object built
    attached,     \* number of attach_database calls that succeeded, per object
    returned,     \* outcome of the last read of the `collection` property
    accesses,     \* number of reads of the `collection` property, per object
    toolResult,   \* the last tool call and how it ended
    calls,        \* number of tool calls made
    files,        \* the file system: what each location holds
    fileArgs,     \* the arguments of the last call of a file tool
    pdfs,         \* the files of pdf_directory
    processed_hashes,  \* _processed_hashes of the knowledge extraction object
    knowledge_cache,   \* _knowledge_cache of the knowledge extraction object
    max_pdfs,          \* max_pdfs of the knowledge extraction object
    pdf_directory,     \* pdf_directory of the knowledge extraction object
    extractions,       \* calls of _extract_knowledge_with_llm, per file name
    marked_with,       \* the knowledge of the last mark_as_processed, per hash
    state,        \* the module-level AppState of the knowledge extraction UI
    chatbot,      \* what each browser session was last shown
    invocation,   \* the last command line invocation and how it ended
    normalized,   \* the last call of normalize_uniprot_id and what it gave
    mapping,      \* the last call of map_assertion_to_ontology: the dictionary
                  \* it was given, before and after the call, and what it gave
    datasheet     \* the last call of process_website_or_pdf and how it ended

depsVars == <<collection, clients, attached, returned, accesses>>
fileVars == <<files, fileArgs, pdfs, processed_hashes, knowledge_cache>>
extractVars == <<max_pdfs, pdf_directory, extractions, marked_with>>
frontVars == <<state, chatbot, invocation>>
argVars == <<normalized, mapping, datasheet>>
vars == <<collection, clients, attached, returned, accesses, toolResult, calls,
          files, fileArgs, pdfs, processed_hashes, knowledge_cache,
          max_pdfs, pdf_directory, extractions, marked_with,
          state, chatbot, invocation, normalized, mapping, datasheet>>

\* ------------------------------------------------- dependency objects
DepsObjects == {"GOCAMDependencies", "RagDependencies", "PhenopacketsDependencies"}

\* where the construction of the handle can fail; "none" is success
FailStages == {"none", "attach_database", "databases", "get_collection"}

NoneHandle == [kind |-> "None"]
Handle(o, n) == [kind |-> "Collection", owner |-> o, client |-> n]
NotCalled == [kind |-> "not called"]
Raised(stage) == [kind |-> "raised", stage |-> stage]

\* a dependency object that builds its handle when it is constructed
InitCollectionEager(o) == Handle(o, 0)

\* `_collection: Optional[Collection] = None`
InitCollection(o) == NoneHandle

\* an accessor without the `is None` test builds a handle on every read
NeedsBuildAlways(o) == TRUE

\* `if self._collection is None:`
NeedsBuild(o) == collection[o] = NoneHandle

\* an accessor that swallows the failure of the construction
AccessNeverRaises(o, fail) == FALSE

\* the property read raises when the construction it runs fails
AccessRaises(o, fail) == NeedsBuild(o) /\ fail # "none"

\* Client() is built as soon as the body of the `if` runs
ClientsAfter(o, fail) == IF NeedsBuild(o) THEN clients[o] + 1 ELSE clients[o]

\* attach_database succeeded unless it is the stage that failed
AttachedAfter(o, fail) ==
    IF NeedsBuild(o) /\ fail # "attach_database" THEN attached[o] + 1 ELSE attached[o]

\* the value of self._collection when the property body ends
CollectionAfter(o, fail) ==
    IF NeedsBuild(o) /\ fail = "none" THEN Handle(o, clients[o] + 1) ELSE collection[o]

\* what the read of the property gives its caller
ReturnedAfter(o, fail) ==
    IF AccessRaises(o, fail) THEN Raised(fail) ELSE CollectionAfter(o, fail)

TotalAccesses ==
    accesses["GOCAMDependencies"] + accesses["RagDependencies"]
        + accesses["PhenopacketsDependencies"]

\* the state change of one read of `deps.collection`
ReadCollection(o, fail) ==
    /\ TotalAccesses < MaxAccess
    /\ collection' = [collection EXCEPT ![o] = CollectionAfter(o, fail)]
    /\ clients' = [clients EXCEPT ![o] = ClientsAfter(o, fail)]
    /\ attached' = [attached EXCEPT ![o] = AttachedAfter(o, fail)]
    /\ returned' = [returned EXCEPT ![o] = ReturnedAfter(o, fail)]
    /\ accesses' = [accesses EXCEPT ![o] = @ + 1]

NoToolCall == [tool |-> "none"]

InitDeps ==
    /\ collection = [o \in DepsObjects |-> InitCollection(o)]
    /\ clients = [o \in DepsObjects |-> 0]
    /\ attached = [o \in DepsObjects |-> 0]
    /\ returned = [o \in DepsObjects |-> NotCalled]
    /\ accesses = [o \in DepsObjects |-> 0]

NoFile == [type |-> "absent"]
NoFileArgs == [tool |-> "none"]

\* the directories a path can name: the working directory of the dependency
\* object, the cache directory below it, the directory the process runs in,
\* the directory of the temporary files, and any other directory
Dirs == {"workdir", "workdir/.scientific_knowledge_cache", "cwd", "outside", "tmp"}

\* the strings the model passes as file names and as data
Strs == {"schema.yaml", "id: x", "test.txt"}
FileNames == Strs \cup {"out.ttl", "cache.json", "core.owl", "export"}
Locations == Dirs \X FileNames

\* the names os.listdir(pdf_directory) can give, in the order it gives them
PdfNames ==
    << [stem |-> "a", ext |-> ".pdf"], [stem |-> "b", ext |-> ".PDF"],
       [stem |-> "notes", ext |-> ".txt"] >>
PdfNameSet == {PdfNames[i] : i \in 1..Len(PdfNames)}

InitFiles ==
    /\ files = [loc \in Locations |-> NoFile]
    /\ fileArgs = NoFileArgs
    /\ pdfs = [n \in PdfNameSet |-> NoFile]
    /\ processed_hashes = {}
    /\ knowledge_cache = <<>>

\* the knowledge extraction object as its dataclass builds it
InitExtract ==
    /\ max_pdfs = 0
    /\ pdf_directory = "."
    /\ extractions = [n \in PdfNameSet |-> 0]
    /\ marked_with = <<>>

\* the browser sessions of the knowledge extraction UI
Sessions == {"s1", "s2"}

\* AppState.__init__
AppState ==
    [pdf_directory |-> "None", cache_directory |-> [dir |-> "None", name |-> ""],
     dependencies |-> [kind |-> "None"], history |-> <<>>, current_pdfs |-> <<>>,
     extracted_knowledge |-> <<>>]

NotShown == [kind |-> "nothing"]
NoInvocation == [command |-> "none"]

InitFront ==
    /\ state = AppState
    /\ chatbot = [s \in Sessions |-> NotShown]
    /\ invocation = NoInvocation

\* no function has been called
InitArgs ==
    /\ normalized = NotCalled
    /\ mapping = NotCalled
    /\ datasheet = NotCalled

Init ==
    /\ InitDeps
    /\ InitFiles
    /\ InitExtract
    /\ InitFront
    /\ InitArgs
    /\ toolResult = NoToolCall
    /\ calls = 0

\* a caller reads the property of one dependency object
AccessCollection ==
    \E o \in DepsObjects, fail \in FailStages :
        /\ ReadCollection(o, fail)
        /\ UNCHANGED <<argVars, toolResult, calls, fileVars, frontVars, extractVars>>

\* ------------------------------------------------------ tool functions
\* how a tool call ends: it returns, raises ModelRetry, or lets another
\* exception leave the call; `on` is the handle whose search/find method the
\* call invoked (NotCalled when it invoked none), `zero` says that the external
\* lookup had no match, `libError` that an exception other than ModelRetry
\* was raised inside the call
ToolReturn(tool, v, zero, on) ==
    [tool |-> tool, outcome |-> "return", value |-> v,
     zero |-> zero, libError |-> FALSE, on |-> on]
ToolRetry(tool, msg, zero, libError, on) ==
    [tool |-> tool, outcome |-> "ModelRetry", value |-> [type |-> "message", text |-> msg],
     zero |-> zero, libError |-> libError, on |-> on]
ToolException(tool, on) ==
    [tool |-> tool, outcome |-> "exception", value |-> [type |-> "message", text |-> "exception"],
     zero |-> FALSE, libError |-> TRUE, on |-> on]

PyList(items) == [type |-> "list", items |-> items]
PyStr(words) == [type |-> "str", words |-> words]
PyNone == [type |-> "NoneType"]
PyDict(row) == [type |-> "dict", row |-> row]

\* the answers of the external search: a ranked list of rows, each named by
\* its rank, or an exception
RowIds == 1..MaxRows
RankedRows == {[i \in 1..n |-> i] : n \in {0} \cup RowIds}
ExternalRaises == [raises |-> TRUE]
ExternalRows(rows) == [raises |-> FALSE, rows |-> rows]
SearchAnswers == {ExternalRaises} \cup {ExternalRows(r) : r \in RankedRows}

\* `obj = flatten(row); obj["relevancy_score"] = score; objs.append(obj)`
GocamObjs(rows) == [i \in 1..Len(rows) |-> [row |-> rows[i], relevancy_score |-> i]]

\* gocam_tools.search_gocams: the whole body runs inside try/except Exception
SearchGocamsResult(fail, ans) ==
    LET o == "GOCAMDependencies"
        tool == "search_gocams" IN
    IF AccessRaises(o, fail)
    THEN ToolRetry(tool, "Error searching GOCAM models", FALSE, TRUE, NotCalled)
    ELSE IF ans.raises
    THEN ToolRetry(tool, "Error searching GOCAM models", FALSE, TRUE, ReturnedAfter(o, fail))
    ELSE IF GocamObjs(ans.rows) = <<>>
    THEN ToolRetry(tool, "No GOCAM models found matching the query", TRUE, FALSE, ReturnedAfter(o, fail))
    ELSE ToolReturn(tool, PyList(GocamObjs(ans.rows)), FALSE, ReturnedAfter(o, fail))

search_gocams ==
    \E fail \in FailStages, ans \in SearchAnswers :
        /\ calls < MaxCalls
        /\ ReadCollection("GOCAMDependencies", fail)
        /\ toolResult' = SearchGocamsResult(fail, ans)
        /\ calls' = calls + 1
        /\ UNCHANGED <<argVars, fileVars, frontVars, extractVars>>

\* a model id is the list of its parts between colons
ModelIds == {<<"x">>, <<"y">>, <<"gomodel", "x">>, <<"go", "x">>, <<"go", "y", "x">>}
\* the ids of the models the GO-CAM collection holds
StoredModels == {<<"gomodel", "x">>}

\* lookup_gocam, "Normalize the model ID"
NormalizeModelId(model_id) ==
    IF Len(model_id) > 1
    THEN IF model_id[1] # "gomodel" THEN <<"gomodel", model_id[2]>> ELSE model_id
    ELSE <<"gomodel">> \o model_id

\* `collection.find({"id": model_id}).rows`
FindRows(model_id) == IF model_id \in StoredModels THEN <<model_id>> ELSE <<>>

\* gocam_tools.lookup_gocam
LookupGocamResult(fail, model_id, findRaises) ==
    LET o == "GOCAMDependencies"
        tool == "lookup_gocam"
        rows == FindRows(NormalizeModelId(model_id)) IN
    IF AccessRaises(o, fail)
    THEN ToolRetry(tool, "Error looking up GO-CAM model", FALSE, TRUE, NotCalled)
    ELSE IF findRaises
    THEN ToolRetry(tool, "Error looking up GO-CAM model", FALSE, TRUE, ReturnedAfter(o, fail))
    ELSE IF rows = <<>>
    THEN ToolRetry(tool, "Could not find GO-CAM model", TRUE, FALSE, ReturnedAfter(o, fail))
    ELSE ToolReturn(tool, PyDict(rows[1]), FALSE, ReturnedAfter(o, fail))

lookup_gocam ==
    \E fail \in FailStages, model_id \in ModelIds, findRaises \in BOOLEAN :
        /\ calls < MaxCalls
        /\ ReadCollection("GOCAMDependencies", fail)
        /\ toolResult' = LookupGocamResult(fail, model_id, findRaises)
        /\ calls' = calls + 1
        /\ UNCHANGED <<argVars, fileVars, frontVars, extractVars>>

\* a UniProt accession is the list of its parts between colons
UniprotIds == {<<"P12345">>, <<"UniProtKB", "P12345">>, <<"a", "b", "Q1">>}

\* a normalisation that keeps the part before the first colon
NormalizeFirstPart(uniprot_id) == <<uniprot_id[1]>>

\* uniprot_agent.normalize_uniprot_id: `uniprot_id.split(":")[-1]`
normalize_uniprot_id(uniprot_id) ==
    IF Len(uniprot_id) > 1 THEN <<uniprot_id[Len(uniprot_id)]>> ELSE uniprot_id

\* the texts the UniProt service answers with, as lists of words
UniprotTexts == {<<>>, <<"Error">>, <<"Entry not found">>, <<"ID", "INS_HUMAN">>}
HasWord(text, w) == \E i \in 1..Len(text) : text[i] = w
UniprotAnswers == {ExternalRaises} \cup {[raises |-> FALSE, text |-> t] : t \in UniprotTexts}

\* gocam_tools.lookup_uniprot_entry
LookupUniprotEntryResult(uniprot_acc, ans) ==
    LET tool == "lookup_uniprot_entry"
        normalized_acc == normalize_uniprot_id(uniprot_acc) IN
    IF ans.raises
    THEN ToolRetry(tool, "Error retrieving UniProt entry", FALSE, TRUE, NotCalled)
    ELSE IF ans.text = <<>> \/ HasWord(ans.text, "Error") \/ HasWord(ans.text, "Entry not found")
    THEN ToolRetry(tool, "Could not find UniProt entry",
                   ans.text = <<>> \/ HasWord(ans.text, "Entry not found"), FALSE, NotCalled)
    ELSE ToolReturn(tool, PyStr(ans.text), FALSE, NotCalled)

lookup_uniprot_entry ==
    \E uniprot_acc \in UniprotIds, ans \in UniprotAnswers :
        /\ calls < MaxCalls
        /\ toolResult' = LookupUniprotEntryResult(uniprot_acc, ans)
        /\ calls' = calls + 1
        /\ UNCHANGED <<argVars, depsVars, fileVars, frontVars, extractVars>>

\* uniprot_agent.search returns the answer of the service as it is
UniprotSearchResult(ans) ==
    LET tool == "uniprot_agent.search" IN
    IF ans.raises THEN ToolException(tool, NotCalled)
    ELSE ToolReturn(tool, PyStr(ans.text), ans.text = <<>>, NotCalled)

uniprot_search ==
    \E ans \in UniprotAnswers :
        /\ calls < MaxCalls
        /\ toolResult' = UniprotSearchResult(ans)
        /\ calls' = calls + 1
        /\ UNCHANGED <<argVars, depsVars, fileVars, frontVars, extractVars>>

\* RagDependencies.max_content_len
max_content_len == 5000
Min(a, b) == IF a < b THEN a ELSE b

\* a row of the rag collection is the length of its content
ContentLens == {max_content_len - 1, max_content_len + 1}
RagRankedRows == UNION {[1..n -> ContentLens] : n \in 0..MaxRows}
RagAnswers == {ExternalRaises} \cup {ExternalRows(r) : r \in RagRankedRows}

\* `row["content"] = row["content"][:ctx.deps.max_content_len]` and the score
RagObjs(rows) ==
    [i \in 1..Len(rows) |-> [content |-> Min(rows[i], max_content_len), relevancy_score |-> i]]

\* rag_agent.search_documents: no try/except, the list is returned as built
SearchDocumentsResult(fail, ans) ==
    LET o == "RagDependencies"
        tool == "search_documents" IN
    IF AccessRaises(o, fail) THEN ToolException(tool, NotCalled)
    ELSE IF ans.raises THEN ToolException(tool, ReturnedAfter(o, fail))
    ELSE ToolReturn(tool, PyList(RagObjs(ans.rows)), ans.rows = <<>>, ReturnedAfter(o, fail))

search_documents ==
    \E fail \in FailStages, ans \in RagAnswers :
        /\ calls < MaxCalls
        /\ ReadCollection("RagDependencies", fail)
        /\ toolResult' = SearchDocumentsResult(fail, ans)
        /\ calls' = calls + 1
        /\ UNCHANGED <<argVars, fileVars, frontVars, extractVars>>

\* rag_agent.inspect_document: returns inside the first round of the loop
InspectDocumentResult(fail, ans) ==
    LET o == "RagDependencies"
        tool == "inspect_document" IN
    IF AccessRaises(o, fail) THEN ToolException(tool, NotCalled)
    ELSE IF ans.raises THEN ToolException(tool, ReturnedAfter(o, fail))
    ELSE IF Len(ans.rows) > 0
    THEN ToolReturn(tool, [type |-> "str", len |-> ans.rows[1]], FALSE, ReturnedAfter(o, fail))
    ELSE ToolReturn(tool, PyNone, TRUE, ReturnedAfter(o, fail))

inspect_document ==
    \E fail \in FailStages, ans \in RagAnswers :
        /\ calls < MaxCalls
        /\ ReadCollection("RagDependencies", fail)
        /\ toolResult' = InspectDocumentResult(fail, ans)
        /\ calls' = calls + 1
        /\ UNCHANGED <<argVars, fileVars, frontVars, extractVars>>

NextDeps ==
    \/ AccessCollection
    \/ search_gocams
    \/ lookup_gocam
    \/ lookup_uniprot_entry
    \/ uniprot_search
    \/ search_documents
    \/ inspect_document

SpecDeps == Init /\ [][NextDeps]_vars

\* ------------------------------------------ the working directory (WorkDir)
WorkDirLocation == "workdir"

\* WorkDir.get_file_path: the file of that name in the working directory
get_file_path(file_name) == <<WorkDirLocation, file_name>>

TextFile(data) == [type |-> "text", text |-> data]

\* WorkDir.write_file
WriteFile(fs, file_name, content) == [fs EXCEPT ![get_file_path(file_name)] = TextFile(content)]

\* WorkDir.read_file
ReadFile(fs, file_name) == fs[get_file_path(file_name)]

\* ---------------------------------------------- file tools (linkml_agent)
\* a write_to_file that passes its arguments in the order it received them
WriteToFileSwapped(fs, data, file_name) == WriteFile(fs, data, file_name)

\* `ctx.deps.workdir.write_file(file_name, data)`
WriteToFileEffect(fs, data, file_name) == WriteFile(fs, file_name, data)

write_to_file ==
    \E data \in Strs, file_name \in Strs :
        /\ calls < MaxFileCalls
        /\ files' = WriteToFileEffect(files, data, file_name)
        /\ fileArgs' = [tool |-> "write_to_file", file_name |-> file_name, data |-> data]
        /\ toolResult' = ToolReturn("write_to_file", PyStr(<<"Data written to", file_name>>),
                                    FALSE, NotCalled)
        /\ calls' = calls + 1
        /\ UNCHANGED <<argVars, depsVars, frontVars, extractVars, pdfs, processed_hashes, knowledge_cache>>

\* `return ctx.deps.workdir.read_file(data_file)`
InspectFileResult(fs, data_file) ==
    IF ReadFile(fs, data_file) = NoFile
    THEN ToolException("inspect_file", NotCalled)
    ELSE ToolReturn("inspect_file", ReadFile(fs, data_file), FALSE, NotCalled)

inspect_file ==
    \E data_file \in Strs :
        /\ calls < MaxFileCalls
        /\ fileArgs' = [tool |-> "inspect_file", file_name |-> data_file, data |-> ""]
        /\ toolResult' = InspectFileResult(files, data_file)
        /\ calls' = calls + 1
        /\ UNCHANGED <<argVars, depsVars, frontVars, extractVars, files, pdfs, processed_hashes, knowledge_cache>>

\* download_web_page: the page is retrieved, then written
download_web_page ==
    \E local_file_name \in Strs, page \in Strs, retrieveRaises \in BOOLEAN :
        /\ calls < MaxFileCalls
        /\ files' = IF retrieveRaises THEN files
                    ELSE WriteFile(files, local_file_name, page)
        /\ fileArgs' = [tool |-> "download_web_page", file_name |-> local_file_name,
                        data |-> page]
        /\ toolResult' = IF retrieveRaises THEN ToolException("download_web_page", NotCalled)
                         ELSE ToolReturn("download_web_page",
                                         PyStr(<<"Data written to", local_file_name>>),
                                         FALSE, NotCalled)
        /\ calls' = calls + 1
        /\ UNCHANGED <<argVars, depsVars, frontVars, extractVars, pdfs, processed_hashes, knowledge_cache>>

\* ------------------------------------ file tools (robot_ontology_agent)
\* the ontology run_robot_template_command compiles from a template file
OwlFile(template_file) == [type |-> "owl", compiled_from |-> template_file]

\* run_robot_template_command: ROBOT writes the ontology when the template
\* compiles and raises when it does not
RobotTemplateCommand(fs, save_to_file, compiles) ==
    IF compiles
    THEN [fs EXCEPT ![get_file_path("core.owl")] = OwlFile(ReadFile(fs, save_to_file))]
    ELSE fs

\* the body of the `try`: the template is written, then compiled, then
\* written once more
WriteAndCompileFiles(fs, template, save_to_file, compiles) ==
    LET written == WriteFile(fs, save_to_file, template)
        compiled == RobotTemplateCommand(written, save_to_file, compiles)
    IN IF compiles THEN WriteFile(compiled, save_to_file, template) ELSE compiled

WriteAndCompileResult(compiles) ==
    LET tool == "write_and_compile_template" IN
    IF compiles
    THEN ToolReturn(tool, PyStr(<<"Template compiled to", "core.owl">>), FALSE, NotCalled)
    ELSE ToolRetry(tool, "Template does not compile", FALSE, TRUE, NotCalled)

write_and_compile_template ==
    \E template \in Strs, save_to_file \in Strs, compiles \in BOOLEAN :
        /\ calls < MaxFileCalls
        /\ files' = WriteAndCompileFiles(files, template, save_to_file, compiles)
        /\ fileArgs' = [tool |-> "write_and_compile_template", file_name |-> save_to_file,
                        data |-> template]
        /\ toolResult' = WriteAndCompileResult(compiles)
        /\ calls' = calls + 1
        /\ UNCHANGED <<argVars, depsVars, frontVars, extractVars, pdfs, processed_hashes,
                       knowledge_cache>>

NextTemplate ==
    \/ write_and_compile_template
    \/ inspect_file

SpecTemplate == Init /\ [][NextTemplate]_vars

\* ------------------------------------------ validate_schema (linkml_agent)
\* `yaml_loader.loads(schema, target_class=SchemaDefinition)`: the object the
\* text is loaded into, which the code binds to the name `schema`
SchemaDefinition(schema) == [type |-> "SchemaDefinition", loaded_from |-> schema]

\* what WorkDir.write_file can do with content that is not a string: raise
\* before the file is opened, raise after the file was opened for writing, or
\* write its rendering of the object
WriteOutcomes == {"TypeError", "TypeError after open", "written"}

WriteObject(fs, file_name, object, writeOutcome) ==
    IF writeOutcome = "TypeError" THEN fs
    ELSE IF writeOutcome = "TypeError after open"
    THEN [fs EXCEPT ![get_file_path(file_name)] = TextFile("")]
    ELSE [fs EXCEPT ![get_file_path(file_name)] = object]

\* the files after validate_schema: `valid` says that the text loads and
\* that the JSON schema generator serializes it
ValidateSchemaFiles(fs, schema, save_to_file, valid, writeOutcome) ==
    IF valid THEN WriteObject(fs, save_to_file, SchemaDefinition(schema), writeOutcome)
    ELSE fs

ValidateSchemaResult(valid, writeOutcome) ==
    LET tool == "validate_schema" IN
    IF valid /\ writeOutcome = "written"
    THEN ToolReturn(tool, PyStr(<<"VALIDATES">>), FALSE, NotCalled)
    ELSE ToolReturn(tool, PyStr(<<"Schema does not validate">>), FALSE, NotCalled)

validate_schema ==
    \E schema \in Strs, save_to_file \in Strs, valid \in BOOLEAN, writeOutcome \in WriteOutcomes :
        /\ calls < MaxFileCalls
        /\ files' = ValidateSchemaFiles(files, schema, save_to_file, valid, writeOutcome)
        /\ fileArgs' = [tool |-> "validate_schema", file_name |-> save_to_file,
                        data |-> schema, valid |-> valid]
        /\ toolResult' = ValidateSchemaResult(valid, writeOutcome)
        /\ calls' = calls + 1
        /\ UNCHANGED <<argVars, depsVars, frontVars, extractVars, pdfs, processed_hashes,
                       knowledge_cache>>

NextSchema ==
    \/ validate_schema
    \/ inspect_file

SpecSchema == Init /\ [][NextSchema]_vars

\* ------------------------------ knowledge extraction: dependency object
\* the texts of the PDF files: sections of sentences; a sentence has its
\* length, whether it names amyloid / alzheimer, and how it can be split
SentenceHit == [id |-> "s1", kw |-> TRUE, len |-> 30, sep |-> "colon"]
SentencePlain == [id |-> "s2", kw |-> TRUE, len |-> 45, sep |-> "none"]
SentenceShort == [id |-> "s3", kw |-> TRUE, len |-> 12, sep |-> "none"]
SentenceOther == [id |-> "s4", kw |-> FALSE, len |-> 60, sep |-> "comma"]

TextOne == << [len |-> 150, sentences |-> <<SentenceHit, SentenceShort, SentenceOther>>] >>
TextTwo ==
    << [len |-> 40, sentences |-> <<SentenceHit>>],
       [len |-> 200, sentences |-> <<SentencePlain, SentenceHit>>] >>
TextNone == << [len |-> 120, sentences |-> <<SentenceOther, SentenceShort>>] >>

\* the PDF files a user can put into pdf_directory; `digest` is the MD5 of
\* the bytes, `readable` says whether pdfminer can extract the text
PdfFiles ==
    { [type |-> "pdf", digest |-> "d1", text |-> TextOne, doi |-> "10.1/one", readable |-> TRUE],
      [type |-> "pdf", digest |-> "d2", text |-> TextTwo, doi |-> "None", readable |-> TRUE],
      [type |-> "pdf", digest |-> "d0", text |-> TextNone, doi |-> "None", readable |-> TRUE],
      [type |-> "pdf", digest |-> "dx", text |-> <<>>, doi |-> "None", readable |-> FALSE] }

\* `os.path.join(str(self.workdir.location), ".scientific_knowledge_cache")`
cache_directory == "workdir/.scientific_knowledge_cache"
CacheFile == <<cache_directory, "cache.json">>

\* get_file_hash: the MD5 of the bytes of the file
get_file_hash(file) == file.digest

\* `self._knowledge_cache.get(file_hash)`, "None" when there is no entry
CacheGet(cache, h) == IF h \in DOMAIN cache THEN cache[h] ELSE <<>>
CachePut(cache, h, knowledge) ==
    [k \in DOMAIN cache \cup {h} |-> IF k = h THEN knowledge ELSE cache[k]]

\* mark_as_processed: the knowledge is stored only when it is not empty
ProcessedAfterMark(hashes, file) == hashes \cup {get_file_hash(file)}
CacheAfterMark(cache, file, knowledge) ==
    IF knowledge # <<>> THEN CachePut(cache, get_file_hash(file), knowledge) ELSE cache

\* save_cache: cache.json holds both collections; a failure is only printed
\* `list(self._processed_hashes)`: the hashes in some order
RECURSIVE ListOfSet(_)
ListOfSet(hashes) ==
    IF hashes = {} THEN <<>>
    ELSE LET h == CHOOSE x \in hashes : TRUE IN <<h>> \o ListOfSet(hashes \ {h})

CacheJson(hashes, cache) ==
    [type |-> "cache", processed_hashes |-> ListOfSet(hashes), knowledge_cache |-> cache]
FilesAfterSave(fs, hashes, cache, saveFails) ==
    IF saveFails THEN fs ELSE [fs EXCEPT ![CacheFile] = CacheJson(hashes, cache)]

\* a _load_cache that reads nothing
LoadCacheDefaults(fs) == [processed_hashes |-> {}, knowledge_cache |-> <<>>]

\* _load_cache: the two collections of cache.json, or the empty defaults of
\* the dataclass when there is no such file
LoadCache(fs) ==
    IF fs[CacheFile] = NoFile
    THEN [processed_hashes |-> {}, knowledge_cache |-> <<>>]
    ELSE LET cache_data == fs[CacheFile] IN
         [processed_hashes |->
              {cache_data.processed_hashes[i] : i \in 1..Len(cache_data.processed_hashes)},
          knowledge_cache |-> cache_data.knowledge_cache]

\* ---------------------------------------- knowledge extraction: tools
\* ScientificAssertion.to_dict of the assertion built from one sentence
Assertion(st, i, doi) ==
    [subject |-> IF st.sep = "none" THEN "Amyloid beta" ELSE st.id,
     predicate |-> "associated_with",
     object |-> st.id,
     evidence |-> st.id,
     paper_doi |-> doi,
     section |-> i,
     subject_ontology_id |-> "None",
     predicate_ontology_id |-> "None",
     predicate_ontology_label |-> "None",
     predicate_ontology_source |-> "None",
     object_ontology_id |-> "None",
     extraction_date |-> "None",
     extraction_method |-> "None"]

\* the sentences of one section that give an assertion
SectionAssertions(section, i, doi) ==
    LET good == SelectSeq(section.sentences, LAMBDA st : st.kw /\ st.len > 20) IN
    [k \in 1..Len(good) |-> Assertion(good[k], i, doi)]

\* _extract_knowledge_with_llm: the first 5 sections, skipping short ones
RECURSIVE ExtractFrom(_, _, _)
ExtractFrom(sections, i, doi) ==
    IF i > Len(sections) \/ i > 5 THEN <<>>
    ELSE (IF sections[i].len < 100 THEN <<>> ELSE SectionAssertions(sections[i], i, doi))
             \o ExtractFrom(sections, i + 1, doi)

ExtractKnowledgeWithLlm(file) == ExtractFrom(file.text, 1, file.doi)

\* a user puts a PDF file into pdf_directory
put_pdf ==
    \E n \in PdfNameSet, file \in PdfFiles :
        /\ pdfs[n] = NoFile
        /\ pdfs' = [pdfs EXCEPT ![n] = file]
        /\ UNCHANGED <<argVars, depsVars, frontVars, extractVars, toolResult, calls, files, fileArgs,
                       processed_hashes, knowledge_cache>>

\* extract_knowledge: what the call gives its caller
ExtractKnowledgeResult(file) ==
    LET tool == "extract_knowledge" IN
    IF file = NoFile
    THEN ToolRetry(tool, "Failed to extract knowledge", FALSE, TRUE, NotCalled)
    ELSE IF CacheGet(knowledge_cache, get_file_hash(file)) # <<>>
    THEN ToolReturn(tool, PyList(CacheGet(knowledge_cache, get_file_hash(file))), FALSE, NotCalled)
    ELSE IF ~file.readable
    THEN ToolRetry(tool, "Failed to extract knowledge", FALSE, TRUE, NotCalled)
    ELSE ToolReturn(tool, PyList(ExtractKnowledgeWithLlm(file)),
                    ExtractKnowledgeWithLlm(file) = <<>>, NotCalled)

\* extract_knowledge reaches mark_as_processed
ExtractKnowledgeMarks(file) ==
    /\ file # NoFile
    /\ CacheGet(knowledge_cache, get_file_hash(file)) = <<>>
    /\ file.readable

extract_knowledge ==
    \E n \in PdfNameSet, saveFails \in BOOLEAN :
        LET file == pdfs[n] IN
        /\ calls < MaxCalls
        /\ toolResult' = ExtractKnowledgeResult(file)
        /\ fileArgs' = [tool |-> "extract_knowledge", file_name |-> n.stem, data |-> ""]
        /\ IF ExtractKnowledgeMarks(file)
           THEN /\ processed_hashes' = ProcessedAfterMark(processed_hashes, file)
                /\ knowledge_cache' =
                       CacheAfterMark(knowledge_cache, file, ExtractKnowledgeWithLlm(file))
                /\ files' = FilesAfterSave(files, processed_hashes', knowledge_cache', saveFails)
           ELSE UNCHANGED <<processed_hashes, knowledge_cache, files>>
        /\ extractions' = IF ExtractKnowledgeMarks(file)
                           THEN [extractions EXCEPT ![n] = @ + 1] ELSE extractions
        /\ marked_with' = IF ExtractKnowledgeMarks(file)
                           THEN CachePut(marked_with, get_file_hash(file),
                                         ExtractKnowledgeWithLlm(file))
                           ELSE marked_with
        /\ calls' = calls + 1
        /\ UNCHANGED <<argVars, depsVars, frontVars, pdfs, max_pdfs, pdf_directory>>

\* `filename.lower().endswith('.pdf')`
Lower(ext) == IF ext = ".PDF" THEN ".pdf" ELSE ext
EndsWithPdf(n) == Lower(n.ext) = ".pdf"

\* get_extracted_knowledge without file_path: the cached knowledge of every
\* PDF of the directory, in the order of os.listdir
RECURSIVE AllKnowledgeFrom(_)
AllKnowledgeFrom(i) ==
    IF i > Len(PdfNames) \/ pdf_directory = "missing" THEN <<>>
    ELSE (IF pdfs[PdfNames[i]] # NoFile /\ EndsWithPdf(PdfNames[i])
          THEN CacheGet(knowledge_cache, get_file_hash(pdfs[PdfNames[i]]))
          ELSE <<>>) \o AllKnowledgeFrom(i + 1)
get_extracted_knowledge == AllKnowledgeFrom(1)

\* the paths the model can pass as output_path
OutputPaths ==
    { [abs |-> FALSE, dir |-> "", name |-> "out.ttl"],
      [abs |-> TRUE, dir |-> "workdir", name |-> "out.ttl"],
      [abs |-> TRUE, dir |-> "outside", name |-> "out.ttl"],
      [abs |-> TRUE, dir |-> "outside", name |-> "schema.yaml"] }

\* `open(output_path, 'w')`: a relative path is taken from the directory the
\* process runs in
OpenLocation(path) == IF path.abs THEN <<path.dir, path.name>> ELSE <<"cwd", path.name>>

\* the statements of the RDF file: one for every assertion with a mapping
HasMapping(a) ==
    \/ a.subject_ontology_id # "None"
    \/ a.predicate_ontology_id # "None"
    \/ a.object_ontology_id # "None"
RdfFile(assertions) == [type |-> "rdf", statements |-> SelectSeq(assertions, HasMapping)]

\* export_assertions_as_rdf
ExportResult(output_path, ioError) ==
    LET tool == "export_assertions_as_rdf" IN
    IF pdf_directory = "missing"
    THEN ToolRetry(tool, "Failed to export assertions as RDF", FALSE, TRUE, NotCalled)
    ELSE IF get_extracted_knowledge = <<>>
    THEN ToolReturn(tool, [type |-> "dict", status |-> "error"], FALSE, NotCalled)
    ELSE IF ioError
    THEN ToolRetry(tool, "Failed to export assertions as RDF", FALSE, TRUE, NotCalled)
    ELSE ToolReturn(tool, [type |-> "dict", status |-> "success", file_path |-> output_path,
                           triples_count |-> Len(SelectSeq(get_extracted_knowledge, HasMapping)),
                           total_assertions |-> Len(get_extracted_knowledge)],
                    FALSE, NotCalled)

export_assertions_as_rdf ==
    \E output_path \in OutputPaths, ioError \in BOOLEAN :
        /\ calls < MaxCalls
        /\ toolResult' = ExportResult(output_path, ioError)
        /\ fileArgs' = [tool |-> "export_assertions_as_rdf", file_name |-> output_path.name,
                        data |-> ""]
        /\ files' = IF get_extracted_knowledge # <<>> /\ ~ioError
                    THEN [files EXCEPT ![OpenLocation(output_path)] =
                              RdfFile(get_extracted_knowledge)]
                    ELSE files
        /\ calls' = calls + 1
        /\ UNCHANGED <<argVars, depsVars, frontVars, extractVars, pdfs, processed_hashes, knowledge_cache>>

\* --------------------------- knowledge extraction: the processing tools
\* the largest max_pdfs the model sets
MaxLimit == 2

\* the knowledge a caller can pass to mark_as_processed
KnowledgeArgs == { <<>>, <<Assertion(SentenceHit, 1, "None")>> }

\* a caller builds the dependency object with its primitive fields, before
\* the first tool call
configure ==
    \E limit \in 0..MaxLimit, dir \in {".", "missing"} :
        /\ calls = 0
        /\ max_pdfs' = limit
        /\ pdf_directory' = dir
        /\ UNCHANGED <<argVars, depsVars, frontVars, toolResult, calls, fileVars,
                       extractions, marked_with>>

\* `file_hash in self._processed_hashes`
is_processed(hashes, file) == get_file_hash(file) \in hashes

\* `self._knowledge_cache.get(file_hash)`
get_cached_knowledge(cache, file) ==
    IF get_file_hash(file) \in DOMAIN cache
    THEN PyList(cache[get_file_hash(file)]) ELSE PyNone

\* mark_as_processed called by a user of the dependency object
mark_as_processed ==
    \E n \in PdfNameSet, knowledge \in KnowledgeArgs, saveFails \in BOOLEAN :
        LET file == pdfs[n] IN
        /\ calls < MaxCalls
        /\ file # NoFile
        /\ processed_hashes' = ProcessedAfterMark(processed_hashes, file)
        /\ knowledge_cache' = CacheAfterMark(knowledge_cache, file, knowledge)
        /\ files' = FilesAfterSave(files, processed_hashes', knowledge_cache', saveFails)
        /\ marked_with' = CachePut(marked_with, get_file_hash(file), knowledge)
        /\ toolResult' = ToolReturn("mark_as_processed", PyNone, FALSE, NotCalled)
        /\ fileArgs' = [tool |-> "mark_as_processed", file_name |-> n.stem, data |-> "",
                        saved |-> ~saveFails]
        /\ calls' = calls + 1
        /\ UNCHANGED <<argVars, depsVars, frontVars, pdfs, max_pdfs, pdf_directory, extractions>>

\* os.listdir(self.pdf_directory)
ListDir == SelectSeq(PdfNames, LAMBDA n : pdfs[n] # NoFile)

\* the slice without a limit leaves the list whole
SliceNone(pdf_files, limit) == pdf_files

\* `pdf_files[:self.max_pdfs]`
Slice(pdf_files, limit) == SubSeq(pdf_files, 1, Min(limit, Len(pdf_files)))

\* get_unprocessed_pdfs of the dependency object
UnprocessedPdfs(hashes) ==
    IF pdf_directory = "missing" THEN <<>>
    ELSE LET pdf_files ==
                 SelectSeq(ListDir, LAMBDA n : EndsWithPdf(n) /\ ~is_processed(hashes, pdfs[n]))
         IN IF max_pdfs > 0 THEN Slice(pdf_files, max_pdfs) ELSE pdf_files

\* the tool get_unprocessed_pdfs
get_unprocessed_pdfs ==
    /\ calls < MaxCalls
    /\ toolResult' = ToolReturn("get_unprocessed_pdfs", PyList(UnprocessedPdfs(processed_hashes)),
                                FALSE, NotCalled)
    /\ fileArgs' = [tool |-> "get_unprocessed_pdfs", file_name |-> "", data |-> ""]
    /\ calls' = calls + 1
    /\ UNCHANGED <<argVars, depsVars, frontVars, extractVars, files, pdfs, processed_hashes,
                   knowledge_cache>>

\* the part of the state a run of extract_knowledge reads and writes, and the
\* entries process_all_unprocessed_pdfs has collected
ExtractionState ==
    [hashes |-> processed_hashes, cache |-> knowledge_cache, fs |-> files,
     count |-> extractions, marked |-> marked_with, entries |-> <<>>, total |-> 0]

CountEntry(n, assertions) ==
    [file |-> n, kind |-> "assertions_count", assertions_count |-> Len(assertions)]
ErrorEntry(n) == [file |-> n, kind |-> "error", assertions_count |-> 0]

\* extract_knowledge on the file named n, in the loop of
\* process_all_unprocessed_pdfs: a cached list is returned as it is, an
\* unreadable file raises, any other file is extracted and marked
ExtractInLoop(st, n, saveFails) ==
    LET file == pdfs[n]
        cached == CacheGet(st.cache, get_file_hash(file))
        found == ExtractKnowledgeWithLlm(file)
        hashes == ProcessedAfterMark(st.hashes, file)
        cache == CacheAfterMark(st.cache, file, found)
    IN IF cached # <<>>
       THEN [st EXCEPT !.entries = Append(@, CountEntry(n, cached)),
                       !.total = @ + Len(cached)]
       ELSE IF ~file.readable
       THEN [st EXCEPT !.entries = Append(@, ErrorEntry(n))]
       ELSE [st EXCEPT !.hashes = hashes,
                       !.cache = cache,
                       !.fs = FilesAfterSave(@, hashes, cache, saveFails),
                       !.count = [@ EXCEPT ![n] = @ + 1],
                       !.marked = CachePut(@, get_file_hash(file), found),
                       !.entries = Append(@, CountEntry(n, found)),
                       !.total = @ + Len(found)]

\* a loop that ends at the first PDF that fails
RECURSIVE ProcessLoopStopping(_, _, _, _)
ProcessLoopStopping(st, unprocessed_pdfs, i, saveFails) ==
    IF i > Len(unprocessed_pdfs) THEN st
    ELSE IF ~pdfs[unprocessed_pdfs[i]].readable
    THEN ExtractInLoop(st, unprocessed_pdfs[i], FALSE)
    ELSE ProcessLoopStopping(ExtractInLoop(st, unprocessed_pdfs[i], saveFails),
                             unprocessed_pdfs, i + 1, saveFails)

\* `for pdf_path in unprocessed_pdfs:` with the try/except around each PDF;
\* `saveFails` says that cache.json cannot be written during the call
RECURSIVE ProcessLoop(_, _, _, _)
ProcessLoop(st, unprocessed_pdfs, i, saveFails) ==
    IF i > Len(unprocessed_pdfs) THEN st
    ELSE ProcessLoop(ExtractInLoop(st, unprocessed_pdfs[i], saveFails),
                     unprocessed_pdfs, i + 1, saveFails)

\* the dictionary process_all_unprocessed_pdfs returns
ProcessAllResult(unprocessed_pdfs, st) ==
    IF unprocessed_pdfs = <<>>
    THEN [type |-> "dict", status |-> "success", processed |-> 0,
          has_files |-> FALSE, total_assertions |-> 0, files |-> <<>>]
    ELSE [type |-> "dict", status |-> "success", processed |-> Len(st.entries),
          has_files |-> TRUE, total_assertions |-> st.total, files |-> st.entries]

process_all_unprocessed_pdfs ==
    \E saveFails \in BOOLEAN :
        LET unprocessed_pdfs == UnprocessedPdfs(processed_hashes)
            st == ProcessLoop(ExtractionState, unprocessed_pdfs, 1, saveFails)
        IN /\ calls < MaxCalls
           /\ toolResult' = ToolReturn("process_all_unprocessed_pdfs",
                                       ProcessAllResult(unprocessed_pdfs, st), FALSE, NotCalled)
           /\ fileArgs' = [tool |-> "process_all_unprocessed_pdfs", file_name |-> "", data |-> ""]
           /\ processed_hashes' = st.hashes
           /\ knowledge_cache' = st.cache
           /\ files' = st.fs
           /\ extractions' = st.count
           /\ marked_with' = st.marked
           /\ calls' = calls + 1
           /\ UNCHANGED <<argVars, depsVars, frontVars, pdfs, max_pdfs, pdf_directory>>

\* the file_path arguments of get_extracted_knowledge; "" is no argument
NoPath == [stem |-> "", ext |-> ""]

\* get_extracted_knowledge as a tool: with a path `knowledge or []`, without
\* one the cached lists of all PDFs of the directory
GetExtractedKnowledgeResult(file_path) ==
    LET tool == "get_extracted_knowledge" IN
    IF file_path # NoPath
    THEN IF pdfs[file_path] = NoFile
         THEN ToolRetry(tool, "Failed to get extracted knowledge", FALSE, TRUE, NotCalled)
         ELSE ToolReturn(tool, PyList(CacheGet(knowledge_cache, get_file_hash(pdfs[file_path]))),
                         FALSE, NotCalled)
    ELSE IF pdf_directory = "missing"
    THEN ToolRetry(tool, "Failed to get extracted knowledge", FALSE, TRUE, NotCalled)
    ELSE ToolReturn(tool, PyList(get_extracted_knowledge), FALSE, NotCalled)

get_extracted_knowledge_call ==
    \E file_path \in PdfNameSet \cup {NoPath} :
        /\ calls < MaxCalls
        /\ toolResult' = GetExtractedKnowledgeResult(file_path)
        /\ fileArgs' = [tool |-> "get_extracted_knowledge", file_name |-> file_path.stem,
                        data |-> ""]
        /\ calls' = calls + 1
        /\ UNCHANGED <<argVars, depsVars, frontVars, extractVars, files, pdfs, processed_hashes,
                       knowledge_cache>>

\* marking, extracting and reading back
NextExtraction ==
    \/ put_pdf
    \/ mark_as_processed
    \/ extract_knowledge
    \/ get_extracted_knowledge_call

SpecExtraction == Init /\ [][NextExtraction]_vars

\* processing a directory
NextProcessing ==
    \/ configure
    \/ put_pdf
    \/ extract_knowledge
    \/ get_unprocessed_pdfs
    \/ process_all_unprocessed_pdfs

SpecProcessing == Init /\ [][NextProcessing]_vars

\* ----------------------------- knowledge extraction: ontology mapping
\* RELATION_MAPPINGS, for the predicates of the model: "binds" has no entry
RelationMapping(predicate) ==
    IF predicate = "associated_with" THEN "RO:0002451" ELSE "None"

\* a dictionary with one more key, or with a new value for a key it has
SetKey(dict, key, value) ==
    [k \in DOMAIN dict \cup {key} |-> IF k = key THEN value ELSE dict[k]]

\* the body of the `try` of map_assertion_to_ontology, on the copy
MappedCopy(assertion) ==
    LET id == RelationMapping(assertion.predicate)
        with_predicate ==
            IF id # "None"
            THEN [assertion EXCEPT !.predicate_ontology_id = id,
                                   !.predicate_ontology_label = assertion.predicate,
                                   !.predicate_ontology_source = "RO"]
            ELSE assertion
    IN [with_predicate EXCEPT
           !.extraction_date = IF @ = "None" THEN "now" ELSE @,
           !.extraction_method =
               IF @ = "None" THEN "scientific_knowledge_extraction_agent" ELSE @]

\* `assertion.get("predicate", "").lower()` raises for a predicate that is
\* None
MappingRaises(assertion) == assertion.predicate = "None"

\* map_assertion_to_ontology: what it returns, what the dictionary it was
\* given holds after the call, and whether it returned that dictionary
MapAssertion(assertion) ==
    IF MappingRaises(assertion)
    THEN [returned |-> SetKey(assertion, "ontology_mapping_error", "AttributeError"),
          after |-> SetKey(assertion, "ontology_mapping_error", "AttributeError"),
          same_object |-> TRUE]
    ELSE [returned |-> MappedCopy(assertion), after |-> assertion, same_object |-> FALSE]

\* the assertions a caller can pass: an extracted one, one that has its
\* provenance, one with a predicate that has no mapping, one without predicate
AssertionArgs ==
    LET a == Assertion(SentenceHit, 1, "None") IN
    { a, [a EXCEPT !.extraction_date = "2017", !.extraction_method = "manual"],
      [a EXCEPT !.predicate = "binds"], [a EXCEPT !.predicate = "None"],
      [a EXCEPT !.paper_doi = "10.1/one"], [a EXCEPT !.paper_doi = "10.1/one", !.predicate = "None"] }

map_assertion_to_ontology ==
    \E assertion \in AssertionArgs :
        /\ calls < MaxCalls
        /\ mapping' = [kind |-> "called", before |-> assertion,
                       after |-> MapAssertion(assertion).after,
                       returned |-> MapAssertion(assertion).returned,
                       same_object |-> MapAssertion(assertion).same_object]
        /\ toolResult' = ToolReturn("map_assertion_to_ontology",
                                    PyDict(MapAssertion(assertion).returned), FALSE, NotCalled)
        /\ fileArgs' = [tool |-> "map_assertion_to_ontology", file_name |-> "", data |-> ""]
        /\ calls' = calls + 1
        /\ UNCHANGED <<normalized, datasheet, depsVars, frontVars, extractVars, files, pdfs,
                       processed_hashes, knowledge_cache>>

\* `updated_assertions`: every assertion of the list, mapped
MapEach(assertions) == [k \in 1..Len(assertions) |-> MapAssertion(assertions[k]).returned]

\* the DOIs of the cached assertions of one file
FileDois(cached_assertions) ==
    {cached_assertions[k].paper_doi : k \in 1..Len(cached_assertions)} \ {"None"}

\* `file_assertions`: the updated assertions whose DOI is one of the file's
FileAssertions(updated_assertions, cached_assertions) ==
    SelectSeq(updated_assertions, LAMBDA a : a.paper_doi \in FileDois(cached_assertions))

\* the state after the two loops of map_all_assertions_to_ontology, from the
\* i-th name of the directory on: every file that was given assertions is
\* marked with them; `cache` is the cache as it was when the call began
RECURSIVE MarkMapped(_, _, _, _, _)
MarkMapped(st, cache, updated_assertions, i, saveFails) ==
    IF i > Len(PdfNames) THEN st
    ELSE LET n == PdfNames[i]
             cached_assertions ==
                 IF pdfs[n] # NoFile /\ EndsWithPdf(n)
                 THEN CacheGet(cache, get_file_hash(pdfs[n])) ELSE <<>>
             file_assertions ==
                 IF cached_assertions # <<>>
                 THEN FileAssertions(updated_assertions, cached_assertions) ELSE <<>>
             hashes == ProcessedAfterMark(st.hashes, pdfs[n])
             new_cache == CacheAfterMark(st.cache, pdfs[n], file_assertions)
         IN MarkMapped(IF file_assertions = <<>> THEN st
                       ELSE [st EXCEPT !.hashes = hashes,
                                       !.cache = new_cache,
                                       !.fs = FilesAfterSave(@, hashes, new_cache, saveFails),
                                       !.marked = CachePut(@, get_file_hash(pdfs[n]),
                                                           file_assertions)],
                       cache, updated_assertions, i + 1, saveFails)

\* the dictionary map_all_assertions_to_ontology returns
MapAllResult(all_assertions) ==
    LET tool == "map_all_assertions_to_ontology"
        updated_assertions == MapEach(all_assertions)
    IN IF pdf_directory = "missing"
       THEN ToolRetry(tool, "Failed to map assertions to ontology", FALSE, TRUE, NotCalled)
       ELSE IF all_assertions = <<>>
       THEN ToolReturn(tool, [type |-> "dict", status |-> "success", total |-> 0, mapped |-> 0,
                              unmapped |-> 0], TRUE, NotCalled)
       ELSE ToolReturn(tool, [type |-> "dict", status |-> "success",
                              total |-> Len(all_assertions),
                              mapped |-> Len(SelectSeq(updated_assertions, HasMapping)),
                              unmapped |-> Len(all_assertions)
                                               - Len(SelectSeq(updated_assertions, HasMapping))],
                       FALSE, NotCalled)

map_all_assertions_to_ontology ==
    \E saveFails \in BOOLEAN :
        LET all_assertions == get_extracted_knowledge
            st == MarkMapped(ExtractionState, knowledge_cache, MapEach(all_assertions), 1,
                             saveFails)
        IN /\ calls < MaxCalls
           /\ toolResult' = MapAllResult(all_assertions)
           /\ fileArgs' = [tool |-> "map_all_assertions_to_ontology", file_name |-> "",
                           data |-> ""]
           /\ processed_hashes' = st.hashes
           /\ knowledge_cache' = st.cache
           /\ files' = st.fs
           /\ marked_with' = st.marked
           /\ calls' = calls + 1
           /\ UNCHANGED <<argVars, depsVars, frontVars, pdfs, max_pdfs, pdf_directory,
                          extractions>>

\* extracting, then mapping
NextMapping ==
    \/ put_pdf
    \/ extract_knowledge
    \/ map_assertion_to_ontology
    \/ map_all_assertions_to_ontology

SpecMapping == Init /\ [][NextMapping]_vars

\* ------------------------------------- knowledge extraction: the chat UI
\* handler calls modelled per run of the UI specification
MaxUiCalls == 3

\* the directories a session can enter; "nowhere" does not exist
PdfDirArgs == {"dirA", "dirB", "nowhere"}
PathExists(dir) == dir \in {"dirA", "dirB"}
\* the cache directory a session can enter; "None" is no entry
CacheDirArgs == {"None", "cacheC"}

\* `cache_dir if cache_dir else os.path.join(pdf_dir, ".scientific_knowledge_cache")`
FinalCacheDir(pdf_dir, cache_dir) ==
    IF cache_dir # "None" THEN [dir |-> cache_dir, name |-> ""]
    ELSE [dir |-> pdf_dir, name |-> ".scientific_knowledge_cache"]

\* the object `ScientificKnowledgeExtractionDependencies(pdf_directory=...,
\* cache_directory=...)` builds; `session` is the session whose call built it
NewDependencies(s, pdf_dir, cache_dir) ==
    [kind |-> "ScientificKnowledgeExtractionDependencies", session |-> s,
     pdf_directory |-> pdf_dir, cache_directory |-> FinalCacheDir(pdf_dir, cache_dir)]

\* `state.current_pdfs`: the PDFs of the directory, each with is_processed
CurrentPdfs(hashes) ==
    LET names == SelectSeq(ListDir, EndsWithPdf) IN
    [k \in 1..Len(names) |->
        [filename |-> names[k], is_processed |-> is_processed(hashes, pdfs[names[k]])]]

\* setup_directories: writes the module-level state; the new dependency
\* object has the defaults of its dataclass and the cache it loaded
SetupDirectories(s, pdf_dir, cache_dir) ==
    /\ IF ~PathExists(pdf_dir)
       THEN /\ chatbot' = [chatbot EXCEPT ![s] =
                              [kind |-> "setup", ok |-> FALSE, pdf_directory |-> pdf_dir]]
            /\ UNCHANGED <<state, processed_hashes, knowledge_cache, max_pdfs, pdf_directory>>
       ELSE /\ processed_hashes' = LoadCache(files).processed_hashes
            /\ knowledge_cache' = LoadCache(files).knowledge_cache
            /\ max_pdfs' = 0
            /\ pdf_directory' = "."
            /\ state' = [state EXCEPT
                            !.pdf_directory = pdf_dir,
                            !.cache_directory = FinalCacheDir(pdf_dir, cache_dir),
                            !.dependencies = NewDependencies(s, pdf_dir, cache_dir),
                            !.current_pdfs = CurrentPdfs(processed_hashes')]
            /\ chatbot' = [chatbot EXCEPT ![s] =
                              [kind |-> "setup", ok |-> TRUE, pdf_directory |-> pdf_dir]]
    /\ fileArgs' = [tool |-> "setup_directories", file_name |-> "", data |-> ""]
    /\ calls' = calls + 1
    /\ UNCHANGED <<argVars, depsVars, files, pdfs, extractions, marked_with, toolResult,
                   invocation>>

setup_directories ==
    \E s \in Sessions, pdf_dir \in PdfDirArgs, cache_dir \in CacheDirArgs :
        /\ calls < MaxUiCalls
        /\ SetupDirectories(s, pdf_dir, cache_dir)

\* the messages of a chat: `session` is the session in which the user typed
\* the message, or whose message the agent answered
UserMessage(s) == [role |-> "User", content |-> [session |-> s, text |-> "question"]]
AgentMessage(s) == [role |-> "Agent", content |-> [session |-> s, text |-> "answer"]]
ErrorMessage(s) == [session |-> s, text |-> "Error"]

\* the conversion of state.history to the messages of the chat widget: the
\* entries are taken two by two, a last single entry is left out
GradioHistory(history) ==
    [i \in 1..(2 * (Len(history) \div 2)) |->
        [role |-> IF i % 2 = 1 THEN "user" ELSE "assistant", content |-> history[i].content]]

\* chat_with_agent: the call of the agent returns a response or raises
chat_with_agent ==
    \E s \in Sessions, agentRaises \in BOOLEAN :
        /\ calls < MaxUiCalls
        /\ IF state.dependencies = AppState.dependencies
           THEN /\ chatbot' = [chatbot EXCEPT ![s] =
                                  [kind |-> "chat", history |-> <<>>,
                                   status |-> "Please set up the PDF directory first.",
                                   dependencies |-> state.dependencies]]
                /\ UNCHANGED state
           ELSE IF agentRaises
           THEN /\ state' = [state EXCEPT !.history = Append(@, UserMessage(s))]
                /\ chatbot' = [chatbot EXCEPT ![s] =
                                  [kind |-> "chat",
                                   history |-> << [role |-> "user", content |-> UserMessage(s).content],
                                                  [role |-> "assistant", content |-> ErrorMessage(s)] >>,
                                   status |-> "Error",
                                   dependencies |-> state.dependencies]]
           ELSE /\ state' = [state EXCEPT
                                !.history = Append(Append(@, UserMessage(s)), AgentMessage(s))]
                /\ chatbot' = [chatbot EXCEPT ![s] =
                                  [kind |-> "chat", history |-> GradioHistory(state'.history),
                                   status |-> "", dependencies |-> state.dependencies]]
        /\ calls' = calls + 1
        /\ UNCHANGED <<argVars, depsVars, fileVars, extractVars, toolResult, invocation>>

NextUi ==
    \/ setup_directories
    \/ chat_with_agent

SpecUi == Init /\ [][NextUi]_vars

\* ------------------- knowledge extraction: the other handlers of the UI
\* handler calls modelled per run of the export specification
MaxExportCalls == 4

\* one session sets up the directory of the model
setup_pdf_directory ==
    /\ calls < MaxExportCalls
    /\ SetupDirectories("s1", "dirA", "None")

HasDependencies == state.dependencies # AppState.dependencies

\* the result of a handler, as the session is shown it
HandlerReturn(handler, value) == ToolReturn(handler, value, FALSE, NotCalled)
PleaseSetUp == PyStr(<<"Please set up the PDF directory first.">>)

\* the loop of process_all_pdfs over state.current_pdfs
UpdatePdfList(current_pdfs, hashes) ==
    [k \in 1..Len(current_pdfs) |->
        [filename |-> current_pdfs[k].filename,
         is_processed |-> is_processed(hashes, pdfs[current_pdfs[k].filename])]]

\* process_all_pdfs
process_all_pdfs ==
    \E saveFails \in BOOLEAN :
        LET unprocessed_pdfs == UnprocessedPdfs(processed_hashes)
            st == ProcessLoop(ExtractionState, unprocessed_pdfs, 1, saveFails)
            result == ProcessAllResult(unprocessed_pdfs, st)
        IN /\ calls < MaxExportCalls
           /\ fileArgs' = [tool |-> "process_all_pdfs", file_name |-> "", data |-> ""]
           /\ IF ~HasDependencies
              THEN /\ toolResult' = HandlerReturn("process_all_pdfs", PleaseSetUp)
                   /\ UNCHANGED <<state, processed_hashes, knowledge_cache, files, extractions,
                                  marked_with>>
              ELSE /\ processed_hashes' = st.hashes
                   /\ knowledge_cache' = st.cache
                   /\ files' = st.fs
                   /\ extractions' = st.count
                   /\ marked_with' = st.marked
                   /\ state' = [state EXCEPT !.current_pdfs = UpdatePdfList(state.current_pdfs, st.hashes)]
                   /\ toolResult' =
                          HandlerReturn("process_all_pdfs",
                                        IF result.processed = 0
                                        THEN PyStr(<<"No new PDFs to process.">>)
                                        ELSE [type |-> "processed", processed |-> result.processed,
                                              total_assertions |-> result.total_assertions])
           /\ calls' = calls + 1
           /\ UNCHANGED <<argVars, depsVars, pdfs, max_pdfs, pdf_directory, chatbot, invocation>>

\* the rows of the table get_knowledge returns
KnowledgeRow(k, include_ontology) ==
    IF include_ontology
    THEN [Subject |-> k.subject, Subject_Ontology |-> k.subject_ontology_id,
          Predicate |-> k.predicate, Predicate_Ontology |-> k.predicate_ontology_id,
          Object |-> k.object, Object_Ontology |-> k.object_ontology_id,
          Evidence |-> k.evidence, DOI |-> k.paper_doi]
    ELSE [Subject |-> k.subject, Predicate |-> k.predicate, Object |-> k.object,
          Evidence |-> k.evidence, DOI |-> k.paper_doi]

\* get_knowledge: the only handler that assigns state.extracted_knowledge
get_knowledge ==
    \E include_ontology \in BOOLEAN :
        LET knowledge == get_extracted_knowledge IN
        /\ calls < MaxExportCalls
        /\ fileArgs' = [tool |-> "get_knowledge", file_name |-> "", data |-> ""]
        /\ state' = IF HasDependencies /\ pdf_directory # "missing"
                    THEN [state EXCEPT !.extracted_knowledge = knowledge] ELSE state
        /\ toolResult' =
               HandlerReturn("get_knowledge",
                             IF ~HasDependencies THEN [type |-> "DataFrame", rows |-> <<>>]
                             ELSE IF pdf_directory = "missing"
                             THEN [type |-> "DataFrame", rows |-> << [Error |-> "ModelRetry"] >>]
                             ELSE [type |-> "DataFrame",
                                   rows |-> [k \in 1..Len(knowledge) |->
                                                KnowledgeRow(knowledge[k], include_ontology)]])
        /\ calls' = calls + 1
        /\ UNCHANGED <<argVars, depsVars, files, pdfs, processed_hashes, knowledge_cache,
                       extractVars, chatbot, invocation>>

\* map_ontologies: the tool's result, or its exception as an error message
map_ontologies ==
    \E saveFails \in BOOLEAN :
        LET all_assertions == get_extracted_knowledge
            st == MarkMapped(ExtractionState, knowledge_cache, MapEach(all_assertions), 1,
                             saveFails)
            result == MapAllResult(all_assertions)
        IN /\ calls < MaxExportCalls
           /\ fileArgs' = [tool |-> "map_ontologies", file_name |-> "", data |-> ""]
           /\ IF ~HasDependencies
              THEN /\ toolResult' = HandlerReturn("map_ontologies",
                                                  [type |-> "dict", status |-> "error"])
                   /\ UNCHANGED <<processed_hashes, knowledge_cache, files, marked_with>>
              ELSE /\ processed_hashes' = st.hashes
                   /\ knowledge_cache' = st.cache
                   /\ files' = st.fs
                   /\ marked_with' = st.marked
                   /\ toolResult' =
                          HandlerReturn("map_ontologies",
                                        IF result.outcome = "return" THEN result.value
                                        ELSE [type |-> "dict", status |-> "error"])
           /\ calls' = calls + 1
           /\ UNCHANGED <<argVars, depsVars, pdfs, max_pdfs, pdf_directory, extractions,
                          frontVars>>

\* the temporary file of an export
ExportLocation == <<"tmp", "export">>
ExportPath == [abs |-> TRUE, dir |-> "tmp", name |-> "export"]

\* the row of the CSV file made from one assertion
CsvRow(k) ==
    [Subject |-> k.subject, Subject_Ontology_ID |-> k.subject_ontology_id,
     Predicate |-> k.predicate, Predicate_Ontology_ID |-> k.predicate_ontology_id,
     Predicate_Ontology_Source |-> k.predicate_ontology_source,
     Object |-> k.object, Object_Ontology_ID |-> k.object_ontology_id,
     Evidence |-> k.evidence, Paper_DOI |-> k.paper_doi, Section |-> k.section,
     Extraction_Date |-> k.extraction_date]

\* what an export in the format holds when it is made from `knowledge`
ExportFile(format_type, knowledge) ==
    IF format_type = "json" THEN [type |-> "json", items |-> knowledge]
    ELSE IF format_type = "csv"
    THEN [type |-> "csv", rows |-> [k \in 1..Len(knowledge) |-> CsvRow(knowledge[k])]]
    ELSE RdfFile(get_extracted_knowledge)

\* `if not state.dependencies or not state.extracted_knowledge:`
NothingToExport == ~HasDependencies \/ state.extracted_knowledge = <<>>

\* export_knowledge: json and csv are written from state.extracted_knowledge,
\* rdf by the tool export_assertions_as_rdf
export_knowledge ==
    \E format_type \in {"json", "csv", "rdf"} :
        LET rdf == ExportResult(ExportPath, FALSE) IN
        /\ calls < MaxExportCalls
        /\ fileArgs' = [tool |-> "export_knowledge", file_name |-> "export",
                        data |-> format_type]
        /\ files' = IF NothingToExport THEN files
                    ELSE IF format_type = "rdf" /\ get_extracted_knowledge = <<>>
                    THEN [files EXCEPT ![ExportLocation] = TextFile("")]
                    ELSE [files EXCEPT ![ExportLocation] =
                              ExportFile(format_type, state.extracted_knowledge)]
        /\ toolResult' =
               HandlerReturn("export_knowledge",
                             IF NothingToExport
                             THEN [type |-> "dict", status |-> "No knowledge to export"]
                             ELSE IF format_type = "rdf" /\ (rdf.outcome # "return" \/ rdf.value.status # "success")
                             THEN [type |-> "dict", status |-> "error"]
                             ELSE [type |-> "dict", status |-> "success"])
        /\ calls' = calls + 1
        /\ UNCHANGED <<argVars, depsVars, extractVars, pdfs, processed_hashes, knowledge_cache,
                       frontVars>>

NextExport ==
    \/ put_pdf
    \/ setup_pdf_directory
    \/ process_all_pdfs
    \/ get_knowledge
    \/ map_ontologies
    \/ export_knowledge

SpecExport == Init /\ [][NextExport]_vars

\* ------------------------------------------- datasheets (d4d_agent)
\* words per document the model draws
MaxWords == 2

\* the words of a document: "Errors" holds the substring "Error", "error"
\* does not, " " is whitespace
DocWords == {"dataset", "Error", "Errors", "error", " "}
DocTexts == UNION {[1..n -> DocWords] : n \in 0..MaxWords}

\* the words in which `"Error" in word` is true
ErrorWords == {"Error", "Error:", "Errors"}
ContainsError(text) == \E k \in 1..Len(text) : text[k] \in ErrorWords

\* str.strip()
Strip(text) ==
    LET kept == {k \in 1..Len(text) : text[k] # " "} IN
    IF kept = {} THEN <<>>
    ELSE SubSeq(text, CHOOSE k \in kept : \A l \in kept : k <= l,
                      CHOOSE k \in kept : \A l \in kept : l <= k)

\* extract_text_from_pdf: the string it returns, and whether the text of
\* the PDF was retrieved and extracted
extract_text_from_pdf(status_code, text, raises) ==
    IF status_code # 200
    THEN [text |-> <<"Error:", "Unable to retrieve PDF.">>, retrieved |-> FALSE]
    ELSE IF raises
    THEN [text |-> <<"Error", "extracting PDF text:", "exception">>, retrieved |-> FALSE]
    ELSE IF text # <<>>
    THEN [text |-> Strip(text), retrieved |-> TRUE]
    ELSE [text |-> <<"Error:", "No text extracted from PDF.">>, retrieved |-> FALSE]

\* retrieve_web_page returns the text of the page
retrieve_web_page(text) == [text |-> text, retrieved |-> TRUE]

\* the URLs: by their suffix and by the content type a HEAD request gives
Urls == { [suffix |-> ".pdf", content_type |-> "application/pdf"],
          [suffix |-> "", content_type |-> "application/pdf"],
          [suffix |-> "", content_type |-> "text/html"] }
IsPdfUrl(url) == url.suffix = ".pdf" \/ url.content_type = "application/pdf"

\* the prompt the agent is run with
Prompt(page_content, url) == [type |-> "prompt", page_content |-> page_content, url |-> url]

\* what one call of process_website_or_pdf did: `prompts` are the prompts
\* the agent was run with
Datasheet(url, page, prompts, outcome, value) ==
    [url |-> url, retrieved |-> page.retrieved, page_content |-> page.text,
     prompts |-> prompts, outcome |-> outcome, value |-> value]

\* process_website_or_pdf
ProcessWebsiteOrPdf(url, status_code, text, raises, agentRaises) ==
    LET page == IF IsPdfUrl(url) THEN extract_text_from_pdf(status_code, text, raises)
                ELSE retrieve_web_page(text)
    IN IF ContainsError(page.text)
       THEN Datasheet(url, page, <<>>, "return", page.text)
       ELSE IF agentRaises
       THEN Datasheet(url, page, <<Prompt(page.text, url)>>, "exception", <<>>)
       ELSE Datasheet(url, page, <<Prompt(page.text, url)>>, "return", <<"yaml">>)

process_website_or_pdf ==
    \E url \in Urls, status_code \in {200, 404}, text \in DocTexts, raises \in BOOLEAN,
       agentRaises \in BOOLEAN :
        /\ datasheet' = ProcessWebsiteOrPdf(url, status_code, text, raises, agentRaises)
        /\ UNCHANGED <<normalized, mapping, depsVars, fileVars, extractVars, frontVars,
                       toolResult, calls>>

NextD4d == process_website_or_pdf

SpecD4d == Init /\ [][NextD4d]_vars

\* ------------------------------------------------- the command line (cli.py)
\* the values the model passes on the command line; "None" is an option that
\* was not given
Queries == { <<>>, <<"what">>, <<"what", "is">> }
ModelArgs == {"None", "gpt-x"}
WorkdirArgs == {"workdir", "/tmp/w"}
DbPathArgs == {"None", "/data/db"}
CollectionArgs == {"None", "docs"}
\* the values of AURELIAN_RAG_DB_PATH; the other variables are not set
EnvDbPaths == {"None", "/env/db"}

\* `agent_keys = ["model", "workdir", "ontologies", "db_path", "collection_name"]`
agent_keys == {"model", "workdir", "ontologies", "db_path", "collection_name"}

Restrict(f, keys) == [k \in (DOMAIN f) \cap keys |-> f[k]]

\* split_options
split_options(kwargs) ==
    [agent_options |-> Restrict(kwargs, agent_keys),
     launch_options |-> Restrict(kwargs, (DOMAIN kwargs) \ agent_keys)]

NoDeps == [kind |-> "None"]
ConfigRaised == [kind |-> "ValueError"]

\* get_config() of the agent's config module, called without arguments
get_config(agent_name, env_db_path) ==
    IF agent_name = "rag"
    THEN IF env_db_path = "None" THEN ConfigRaised
         ELSE [kind |-> "RagDependencies", workdir |-> WorkDirLocation,
               db_path |-> env_db_path, collection_name |-> "main"]
    ELSE [kind |-> "PhenopacketsDependencies", workdir |-> WorkDirLocation,
          db_path |-> "mongodb://localhost:27017/phenopackets", collection_name |-> "main"]

\* `deps.workdir.location = agent_options['workdir']`: the only option
\* run_agent sets on the dependency object
DepsWithOptions(deps, agent_options) ==
    [deps EXCEPT
        !.workdir = IF "workdir" \in DOMAIN agent_options /\ agent_options["workdir"] # "None"
                    THEN agent_options["workdir"] ELSE @]

\* `join_char.join(query)`
JoinQuery(query, join_char) == [words |-> query, join_char |-> join_char]
NoQuery == [words |-> <<>>, join_char |-> ""]
NoOptions == [k \in {} |-> "None"]

\* what one invocation did: the branch taken, the dependency object built,
\* the calls of the agent and of the chat UI, and how the process ended
Invocation(command, ui, query, given, mode, deps, runs, run_query, run_options, chat_options, launch_options, launched, printed, exit_code) ==
    [command |-> command, ui |-> ui, query |-> query, given |-> given, mode |-> mode,
     deps |-> deps, agent_runs |-> runs, run_query |-> run_query,
     run_options |-> run_options, chat_options |-> chat_options,
     launch_options |-> launch_options, launched |-> launched, printed |-> printed,
     exit_code |-> exit_code]

\* `if not ui and query:`
DirectMode(ui, query) == ~ui /\ query # <<>>

\* run_agent: an exception that leaves it ends the process with exit code 1
run_agent(command, agent_name, query, ui, kwargs, given, env_db_path, agentRaises) ==
    LET agent_options == split_options(kwargs).agent_options
        launch_options == split_options(kwargs).launch_options
        config == get_config(agent_name, env_db_path)
        deps == DepsWithOptions(config, agent_options)
        agent_run_options == Restrict(agent_options, (DOMAIN agent_options) \ {"workdir"})
    IN IF DirectMode(ui, query)
       THEN IF config = ConfigRaised
            THEN Invocation(command, ui, query, given, "direct", NoDeps, 0, NoQuery, NoOptions,
                            NoOptions, NoOptions, FALSE, FALSE, 1)
            ELSE Invocation(command, ui, query, given, "direct", deps, 1, JoinQuery(query, " "),
                            agent_run_options, NoOptions, NoOptions, FALSE, ~agentRaises,
                            IF agentRaises THEN 1 ELSE 0)
       ELSE Invocation(command, ui, query, given, "ui", NoDeps, 0, NoQuery, NoOptions,
                       agent_options, launch_options, TRUE, FALSE, 0)

\* the options every agent subcommand has
CommonOptions(model, workdir) ==
    [model |-> model, workdir |-> workdir, share |-> "False", server_port |-> "7860"]

\* what was given on the command line
Given(model, workdir, db_path, collection_name) ==
    [model |-> model, workdir |-> workdir, db_path |-> db_path,
     collection_name |-> collection_name]

\* the subcommand phenopackets
phenopackets ==
    \E ui \in BOOLEAN, query \in Queries, model \in ModelArgs, workdir \in WorkdirArgs,
       agentRaises \in BOOLEAN :
        /\ invocation' = run_agent("phenopackets", "phenopackets", query, ui,
                                   CommonOptions(model, workdir),
                                   Given(model, workdir, "None", "None"), "None", agentRaises)
        /\ UNCHANGED <<argVars, depsVars, fileVars, extractVars, toolResult, calls, state, chatbot>>

\* `click.echo("Error: --db-path is required")` and `return`: the command
\* function returns, and the process ends with exit code 0
ExitCodeAfterReturn == 0

\* the keyword arguments rag adds: db_path always, collection_name if given
RagOptions(model, workdir, db_path, collection_name) ==
    IF collection_name # "None"
    THEN [model |-> model, workdir |-> workdir, share |-> "False", server_port |-> "7860",
          db_path |-> db_path, collection_name |-> collection_name]
    ELSE [model |-> model, workdir |-> workdir, share |-> "False", server_port |-> "7860",
          db_path |-> db_path]

\* the subcommand rag
rag ==
    \E ui \in BOOLEAN, query \in Queries, model \in ModelArgs, workdir \in WorkdirArgs,
       db_path \in DbPathArgs, collection_name \in CollectionArgs,
       env_db_path \in EnvDbPaths, agentRaises \in BOOLEAN :
        /\ invocation' =
               IF db_path = "None"
               THEN Invocation("rag", ui, query, Given(model, workdir, db_path, collection_name),
                               "rejected", NoDeps, 0, NoQuery, NoOptions, NoOptions, NoOptions,
                               FALSE, FALSE, ExitCodeAfterReturn)
               ELSE run_agent("rag", "rag", query, ui,
                              RagOptions(model, workdir, db_path, collection_name),
                              Given(model, workdir, db_path, collection_name),
                              env_db_path, agentRaises)
        /\ UNCHANGED <<argVars, depsVars, fileVars, extractVars, toolResult, calls, state, chatbot>>

NextCli ==
    \/ phenopackets
    \/ rag

SpecCli == Init /\ [][NextCli]_vars

\* ------------------------------------ the command line: ske_clear_cache
\* the methods the class ScientificKnowledgeExtractionDependencies defines
DependenciesMethods ==
    {"__post_init__", "_load_cache", "save_cache", "get_file_hash", "is_processed",
     "mark_as_processed", "get_cached_knowledge", "get_unprocessed_pdfs"}

\* what one run of ske_clear_cache did: `raised` is the exception that ended it
ClearInvocation(file, printed, raised, exit_code) ==
    [command |-> "ske_clear_cache", file |-> file, printed |-> printed, raised |-> raised,
     exit_code |-> exit_code]

\* what the base class HasWorkdir gives the dependency object
HasWorkdirAttributes == {"workdir"}

\* `deps.clear_cache(...)`: the attribute lookup on the dependency object
ClearCacheCall(file) ==
    IF "clear_cache" \in DependenciesMethods \cup HasWorkdirAttributes
    THEN ClearInvocation(file, "cleared", "None", 0)
    ELSE ClearInvocation(file, "None", "AttributeError", 1)

\* the subcommand ske_clear_cache, run on the cache directory of the model;
\* NoPath is a run without --file
clear_scientific_knowledge_cache ==
    \E file \in PdfNameSet \cup {NoPath} :
        /\ invocation' =
               IF file # NoPath /\ pdfs[file] = NoFile
               THEN ClearInvocation(file, "Error: File does not exist.", "None",
                                    ExitCodeAfterReturn)
               ELSE ClearCacheCall(file)
        /\ UNCHANGED <<argVars, depsVars, fileVars, extractVars, toolResult, calls, state, chatbot>>

NextClearCache ==
    \/ put_pdf
    \/ mark_as_processed
    \/ clear_scientific_knowledge_cache

SpecClearCache == Init /\ [][NextClearCache]_vars

\* ------------------------------- knowledge extraction: a second object
\* `ScientificKnowledgeExtractionDependencies(...)` on the cache directory of
\* the model: __post_init__ loads cache.json, and the new object takes the
\* place of the one that wrote it
new_dependencies ==
    /\ calls < MaxFileCalls
    /\ processed_hashes' = LoadCache(files).processed_hashes
    /\ knowledge_cache' = LoadCache(files).knowledge_cache
    /\ fileArgs' = [tool |-> "__post_init__", file_name |-> "cache.json", data |-> ""]
    /\ toolResult' = ToolReturn("__post_init__", PyNone, FALSE, NotCalled)
    /\ calls' = calls + 1
    /\ UNCHANGED <<argVars, depsVars, frontVars, extractVars, files, pdfs>>

\* marking with one object and reading with the next
NextPersist ==
    \/ put_pdf
    \/ mark_as_processed
    \/ new_dependencies

SpecPersist == Init /\ [][NextPersist]_vars

\* ------------------------------------------- normalize_uniprot_id by itself
\* the largest number of colon-separated parts of an identifier
MaxParts == 3

\* the parts an identifier is made of; "" is what stands after a last colon
\* that ends the identifier
IdParts == {"UniProtKB", "P12345", "P12345.2", ""}
UniprotIdArgs == UNION {[1..n -> IdParts] : n \in 1..MaxParts}

\* one call; `original` is the identifier the first call was given
Normalized(original, uniprot_id, times) ==
    [kind |-> "called", original |-> original, uniprot_id |-> uniprot_id,
     result |-> normalize_uniprot_id(uniprot_id), times |-> times]

\* a caller normalizes an identifier
normalize_call ==
    \E uniprot_id \in UniprotIdArgs :
        /\ normalized = NotCalled
        /\ normalized' = Normalized(uniprot_id, uniprot_id, 1)
        /\ UNCHANGED <<mapping, datasheet, depsVars, fileVars, extractVars, frontVars, toolResult,
                   calls>>

\* a caller normalizes the identifier the last call gave
normalize_again ==
    /\ normalized # NotCalled
    /\ normalized.times < MaxCalls
    /\ normalized' = Normalized(normalized.original, normalized.result, normalized.times + 1)
    /\ UNCHANGED <<mapping, datasheet, depsVars, fileVars, extractVars, frontVars, toolResult,
                   calls>>

NextNormalize ==
    \/ normalize_call
    \/ normalize_again

SpecNormalize == Init /\ [][NextNormalize]_vars

NextWorkdir ==
    \/ write_to_file
    \/ inspect_file
    \/ download_web_page

SpecWorkdir == Init /\ [][NextWorkdir]_vars

NextKnowledge ==
    \/ put_pdf
    \/ extract_knowledge
    \/ export_assertions_as_rdf

SpecKnowledge == Init /\ [][NextKnowledge]_vars

Next == NextDeps \/ NextWorkdir \/ NextKnowledge \/ NextExtraction \/ NextProcessing
        \/ NextUi \/ NextCli \/ NextClearCache \/ NextNormalize \/ NextTemplate \/ NextSchema
        \/ NextPersist \/ NextMapping \/ NextExport
    \/ NextD4d

Spec == Init /\ [][Next]_vars

\* ------------------------------------------------------------- claims

\* C1: once a dependency object holds a handle, every later read of
\* `collection` returns that same handle, and builds no client and attaches
\* no database.
C1_IdenticalHandle ==
    [][\A o \in DepsObjects :
          collection[o] # NoneHandle =>
              /\ collection'[o] = collection[o]
              /\ clients'[o] = clients[o]
              /\ attached'[o] = attached[o]
              /\ (accesses'[o] # accesses[o] => returned'[o] = collection[o])]_vars

\* a handle built once and then read again
C1_Witness ==
    \E o \in DepsObjects :
        /\ accesses[o] >= 2
        /\ clients[o] = 1
        /\ collection[o] = Handle(o, 1)
        /\ returned[o] = collection[o]

\* C2: a dependency object that was never read has no client, no attached
\* database and no handle; the first read that succeeds builds the handle
\* with the first client; a tool invokes search/find on a built handle only.
C2_DeferredConstruction ==
    /\ [](\A o \in DepsObjects :
            accesses[o] = 0 =>
                collection[o] = NoneHandle /\ clients[o] = 0 /\ attached[o] = 0)
    /\ [](toolResult.tool # "none" /\ toolResult.on # NotCalled =>
                toolResult.on.kind = "Collection")
    /\ [][\A o \in DepsObjects :
            accesses[o] = 0 /\ accesses'[o] = 1 /\ returned'[o].kind # "raised" =>
                /\ clients'[o] = 1
                /\ collection'[o] = Handle(o, 1)
                /\ returned'[o] = collection'[o]]_vars

\* a tool searched the collection in the first read of its dependency object
C2_Witness ==
    /\ toolResult.tool = "search_gocams"
    /\ toolResult.on = Handle("GOCAMDependencies", 1)
    /\ accesses["GOCAMDependencies"] = 1
    /\ accesses["RagDependencies"] = 0
    /\ clients["RagDependencies"] = 0

\* C3: a read of `collection` whose construction fails raises: it never
\* returns a null handle and leaves _collection unset; a read that finds
\* _collection unset runs the construction again.
C3_FailureSurfaces ==
    [][\A o \in DepsObjects :
          accesses'[o] # accesses[o] =>
              /\ returned'[o] # NoneHandle
              /\ (collection'[o] = NoneHandle <=> returned'[o].kind = "raised")
              /\ (collection[o] = NoneHandle => clients'[o] = clients[o] + 1)]_vars

\* a failed construction followed by a read that built the handle
C3_Witness ==
    \E o \in DepsObjects :
        /\ clients[o] = 2
        /\ attached[o] >= 1
        /\ collection[o] = Handle(o, 2)
        /\ returned[o] = collection[o]

\* C4: a tool call whose external lookup has zero matches ends with
\* ModelRetry.
C4_ZeroMatchesRetry ==
    toolResult.tool # "none" /\ toolResult.zero => toolResult.outcome = "ModelRetry"

\* C5: an exception other than ModelRetry raised inside a tool call leaves
\* the call as an exception, not as ModelRetry.
C5_FatalPropagates ==
    toolResult.tool # "none" /\ toolResult.libError => toolResult.outcome = "exception"

\* C9: a write of data c to file f by a file tool leaves f of the working
\* directory holding exactly c and every other file of the working directory
\* as it was (so the last write to f wins); inspect_file of f returns what f
\* holds.
C9_WriteThenRead ==
    [][calls' # calls /\ toolResult'.outcome = "return" =>
          /\ (toolResult'.tool \in {"write_to_file", "download_web_page"} =>
                /\ files'[<<"workdir", fileArgs'.file_name>>] = TextFile(fileArgs'.data)
                /\ \A f \in FileNames \ {fileArgs'.file_name} :
                       files'[<<"workdir", f>>] = files[<<"workdir", f>>])
          /\ (toolResult'.tool = "inspect_file" =>
                /\ toolResult'.value = files[<<"workdir", fileArgs'.file_name>>]
                /\ toolResult'.value.type = "text"
                /\ files' = files)]_vars

\* schema.yaml written twice, and read back with the data of the second write
C9_Witness ==
    /\ calls = 3
    /\ toolResult.tool = "inspect_file"
    /\ toolResult.outcome = "return"
    /\ fileArgs.file_name = "schema.yaml"
    /\ toolResult.value = TextFile("id: x")
    /\ files[<<"workdir", "test.txt">>] = TextFile("schema.yaml")

\* C10: every file a tool wrote lies in the working directory of the
\* dependency object.
C10_WritesInsideWorkdir ==
    \A loc \in Locations :
        files[loc] # NoFile => loc[1] \in {WorkDirLocation, cache_directory}

\* the file names of pdf_directory that hold a file
Present == {n \in PdfNameSet : pdfs[n] # NoFile}

\* the step is a call of the tool `tool`
Called(tool) == calls' = calls + 1 /\ fileArgs'.tool = tool

\* C16: a file that was marked as processed with knowledge k is reported by
\* is_processed, get_cached_knowledge returns k for it, and a later
\* extract_knowledge on it returns exactly k and does not run the extraction
\* step.
C16_MarkedIsCached ==
    [][\A n \in Present :
          LET file == pdfs[n]
              h == get_file_hash(file)
          IN h \in DOMAIN marked_with =>
                /\ is_processed(processed_hashes, file)
                /\ get_cached_knowledge(knowledge_cache, file) = PyList(marked_with[h])
                /\ (Called("extract_knowledge") /\ fileArgs'.file_name = n.stem =>
                       /\ toolResult' = ToolReturn("extract_knowledge", PyList(marked_with[h]),
                                                   toolResult'.zero, NotCalled)
                       /\ extractions' = extractions)]_vars

\* C17: the first extraction call on a file marks it as processed, and over
\* any sequence of calls on the unchanged file the extraction step runs at
\* most once, also when it found nothing.
C17_ExtractedAtMostOnce ==
    \A n \in Present :
        /\ extractions[n] <= 1
        /\ (extractions[n] >= 1 => is_processed(processed_hashes, pdfs[n]))

\* C18: process_all_unprocessed_pdfs returns status "success" with one entry,
\* in order, for each PDF get_unprocessed_pdfs reports when the call starts
\* (no `files` at all when it reports none), `processed` is their number, a
\* PDF that fails gets an error entry and the PDFs after it are still
\* attempted; after a call without a failure and with max_pdfs = 0 no PDF is
\* left unprocessed, so that a second call reports `processed` = 0.
C18_ProcessAll ==
    [][Called("process_all_unprocessed_pdfs") =>
          LET start == UnprocessedPdfs(processed_hashes)
              r == toolResult'.value
          IN /\ toolResult'.outcome = "return"
             /\ r.status = "success"
             /\ r.processed = Len(start)
             /\ Len(r.files) = Len(start)
             /\ r.has_files = (start # <<>>)
             /\ \A i \in 1..Len(start) :
                    /\ r.files[i].file = start[i]
                    /\ r.files[i].kind \in {"assertions_count", "error"}
                    /\ (~pdfs[start[i]].readable
                          /\ get_cached_knowledge(knowledge_cache, pdfs[start[i]]) = PyNone
                        => r.files[i].kind = "error")
             /\ ((\A i \in 1..Len(start) : r.files[i].kind # "error") /\ max_pdfs = 0
                 => /\ UnprocessedPdfs(processed_hashes)' = <<>>
                    /\ ProcessAllResult(UnprocessedPdfs(processed_hashes),
                                        ExtractionState)'.processed = 0)]_vars

\* the first PDF failed, and the one after it was still extracted
C18_Witness ==
    /\ toolResult.tool = "process_all_unprocessed_pdfs"
    /\ toolResult.value.processed = 2
    /\ toolResult.value.files[1].kind = "error"
    /\ toolResult.value.files[2].kind = "assertions_count"
    /\ toolResult.value.files[2].assertions_count = 2
    /\ toolResult.value.total_assertions = 2

\* the members of a sequence
Range(seq) == {seq[i] : i \in 1..Len(seq)}

\* C19: get_unprocessed_pdfs returns, without repetition, files of
\* pdf_directory named *.pdf in any case that are not marked as processed:
\* all of them when max_pdfs is 0, and min(max_pdfs, their number) of them
\* when max_pdfs > 0; nothing when the directory does not exist.
C19_Unprocessed ==
    [][Called("get_unprocessed_pdfs") =>
          LET items == toolResult'.value.items
              eligible == {n \in Present : /\ n.ext \in {".pdf", ".PDF"}
                                           /\ get_file_hash(pdfs[n]) \notin processed_hashes
                                           /\ get_file_hash(pdfs[n]) \notin DOMAIN marked_with}
          IN /\ toolResult'.outcome = "return"
             /\ Cardinality(Range(items)) = Len(items)
             /\ IF pdf_directory = "missing" THEN items = <<>>
                ELSE /\ Range(items) \subseteq eligible
                     /\ IF max_pdfs > 0
                        THEN Len(items) = Min(max_pdfs, Cardinality(eligible))
                        ELSE Range(items) = eligible]_vars

\* with max_pdfs = 1 and two unprocessed PDFs, one named in upper case, the
\* call returned one of them; a third PDF was left out as processed
C19_Witness ==
    /\ toolResult.tool = "get_unprocessed_pdfs"
    /\ max_pdfs = 1
    /\ toolResult.value.items = << [stem |-> "b", ext |-> ".PDF"] >>
    /\ pdfs[[stem |-> "a", ext |-> ".pdf"]] # NoFile
    /\ is_processed(processed_hashes, pdfs[[stem |-> "a", ext |-> ".pdf"]])
    /\ pdfs[[stem |-> "notes", ext |-> ".txt"]] # NoFile

\* the number of assertions the cache holds for the hashes of hs
RECURSIVE CachedCount(_)
CachedCount(hs) ==
    IF hs = {} THEN 0
    ELSE LET h == CHOOSE x \in hs : TRUE
         IN Len(CacheGet(knowledge_cache, h)) + CachedCount(hs \ {h})

\* C20: get_extracted_knowledge without a path returns every cached assertion
\* of the PDFs of the directory once; when the cache holds the knowledge of
\* one file only, the result is what get_extracted_knowledge returns for that
\* file's path, whatever other PDFs the directory holds.
C20_AllKnowledgeOnce ==
    [][Called("get_extracted_knowledge") /\ fileArgs'.file_name = ""
         /\ toolResult'.outcome = "return" =>
          LET items == toolResult'.value.items
              listed == {n \in Present : EndsWithPdf(n)}
          IN /\ Len(items) = CachedCount({get_file_hash(pdfs[n]) : n \in listed})
             /\ \A n \in listed :
                    DOMAIN knowledge_cache = {get_file_hash(pdfs[n])} =>
                        toolResult' = GetExtractedKnowledgeResult(n)]_vars

\* C11: sessions share no state: the chat a session is shown holds only the
\* messages typed and answered in that session, and the dependency object its
\* chat runs with is one that a setup call of the same session built.
C11_NoSharedState ==
    \A s \in Sessions :
        chatbot[s].kind = "chat" =>
            /\ \A i \in DOMAIN chatbot[s].history :
                   chatbot[s].history[i].content.session = s
            /\ chatbot[s].dependencies # AppState.dependencies =>
                   chatbot[s].dependencies.session = s

\* the invocation was ended for a configuration error: a required option
\* was missing, or the dependency object could not be built
ConfigurationError ==
    \/ invocation.mode = "rejected"
    \/ invocation.mode = "direct" /\ invocation.deps = NoDeps

\* C13: every invocation of an agent subcommand runs exactly one mode: the
\* direct mode, in which the agent is run once on the joined query words and
\* its answer printed, exactly when a query is given and --ui is not set, and
\* the chat UI otherwise, in which the command line does not run the agent.
C13_ExactlyOneMode ==
    invocation # NoInvocation =>
        /\ invocation.mode \in {"direct", "ui"}
        /\ invocation.mode = "direct" <=> (invocation.query # <<>> /\ ~invocation.ui)
        /\ invocation.mode = "direct" =>
               /\ invocation.agent_runs = 1
               /\ invocation.run_query = JoinQuery(invocation.query, " ")
               /\ ~invocation.launched
               /\ (invocation.exit_code = 0 => invocation.printed)
        /\ invocation.mode = "ui" =>
               /\ invocation.launched
               /\ invocation.agent_runs = 0
               /\ ~invocation.printed

\* C14: an invocation that ends for a configuration error has a non-zero
\* exit code and has not run the agent; exit code 0 means that the mode ran.
C14_ExitCode ==
    invocation # NoInvocation =>
        /\ ConfigurationError => invocation.exit_code # 0 /\ invocation.agent_runs = 0
        /\ invocation.exit_code = 0 => invocation.launched \/ invocation.printed

\* C15: in direct mode the dependency object the agent is run with holds the
\* values given on the command line for --workdir, --db-path and
\* --collection-name, and no option meant for it is handed to the run instead.
C15_OptionsApplied ==
    invocation # NoInvocation /\ invocation.mode = "direct" /\ invocation.agent_runs = 1 =>
        /\ invocation.deps.workdir = invocation.given.workdir
        /\ invocation.given.db_path # "None" =>
               invocation.deps.db_path = invocation.given.db_path
        /\ invocation.given.collection_name # "None" =>
               invocation.deps.collection_name = invocation.given.collection_name
        /\ DOMAIN invocation.run_options \subseteq {"model"}

\* C21: a run of ske_clear_cache without --file leaves a cache in which no
\* hash is processed and no knowledge is stored; a run with --file on an
\* existing file removes the entry of that file and leaves every other entry
\* as it was; a run that names a file that does not exist reports the error
\* and leaves the files as they were.
C21_ClearCache ==
    [][(invocation' # invocation /\ invocation'.command = "ske_clear_cache") =>
          LET before == LoadCache(files)
              after == LoadCache(files')
              file == invocation'.file
          IN IF file = NoPath
             THEN after.processed_hashes = {} /\ after.knowledge_cache = <<>>
             ELSE IF pdfs[file] = NoFile
             THEN files' = files /\ invocation'.printed = "Error: File does not exist."
             ELSE /\ after.processed_hashes = before.processed_hashes \ {get_file_hash(pdfs[file])}
                  /\ DOMAIN after.knowledge_cache =
                         DOMAIN before.knowledge_cache \ {get_file_hash(pdfs[file])}
                  /\ \A h \in DOMAIN after.knowledge_cache :
                         after.knowledge_cache[h] = before.knowledge_cache[h]]_vars

C23_WrittenOnlyIfCompiles ==
    [][Called("write_and_compile_template") =>
          /\ (toolResult'.outcome = "ModelRetry" => files' = files)
          /\ (toolResult'.outcome = "return" =>
                 files'[get_file_path(fileArgs'.file_name)] = TextFile(fileArgs'.data))]_vars

\* C24: validate_schema returns "VALIDATES" exactly for a valid schema, and
\* save_to_file then holds the schema text that was passed in; for a schema
\* that is not valid it returns a "Schema does not validate" message and
\* leaves the files as they were; it never raises.
C24_ValidateSchema ==
    [][Called("validate_schema") =>
          /\ toolResult'.outcome = "return"
          /\ (fileArgs'.valid <=> toolResult'.value = PyStr(<<"VALIDATES">>))
          /\ (fileArgs'.valid =>
                 files'[get_file_path(fileArgs'.file_name)] = TextFile(fileArgs'.data))
          /\ (~fileArgs'.valid =>
                 /\ toolResult'.value = PyStr(<<"Schema does not validate">>)
                 /\ files' = files)]_vars

C26_MappedOwnAssertions ==
    [][Called("map_all_assertions_to_ontology") /\ toolResult'.outcome = "return" =>
          \A n \in Present :
              EndsWithPdf(n) =>
                  LET before == CacheGet(knowledge_cache, get_file_hash(pdfs[n]))
                      after == CacheGet(knowledge_cache', get_file_hash(pdfs[n]))
                  IN /\ Len(after) = Len(before)
                     /\ \A k \in 1..Len(before) : after[k] = MapAssertion(before[k]).returned]_vars

\* C27: map_assertion_to_ontology returns a dictionary that is not the one
\* it was given, and the one it was given holds after the call what it held
\* before, whether the mapping succeeded or failed; after a success the
\* returned dictionary has its provenance fields.
C27_InputNotModified ==
    mapping # NotCalled =>
        /\ mapping.after = mapping.before
        /\ ~mapping.same_object
        /\ (~MappingRaises(mapping.before) =>
               /\ mapping.returned.extraction_date # "None"
               /\ mapping.returned.extraction_method # "None")

\* C28: the stored history of the chat alternates user and agent entries,
\* beginning with a user entry, and every pair a session is shown is a user
\* message followed by a reply of the agent (or the error that took its
\* place), also after calls in which the agent raised.
C28_HistoryAlternates ==
    /\ \A i \in 1..Len(state.history) :
           state.history[i].role = IF i % 2 = 1 THEN "User" ELSE "Agent"
    /\ \A s \in Sessions :
           chatbot[s].kind = "chat" =>
               \A i \in 1..Len(chatbot[s].history) :
                   i % 2 = 1 =>
                       /\ chatbot[s].history[i].content.text = "question"
                       /\ i + 1 <= Len(chatbot[s].history)
                       /\ chatbot[s].history[i + 1].content.text # "question"

\* C29: once a directory is set up, an export in json or csv format
\* succeeds whenever the cache of the directory holds assertions, and the
\* file it writes holds exactly those assertions as the cache holds them at
\* the time of the export, ontology mappings included, whether or not
\* get_knowledge was called before.
C29_ExportIsCache ==
    [][Called("export_knowledge") /\ fileArgs'.data \in {"json", "csv"}
          /\ HasDependencies /\ get_extracted_knowledge # <<>> =>
              /\ toolResult'.value.status = "success"
              /\ files'[ExportLocation] = ExportFile(fileArgs'.data, get_extracted_knowledge)]_vars

\* C30: process_website_or_pdf runs the agent on the page content exactly
\* when the page or the PDF was retrieved, whatever the content says; only a
\* call whose retrieval or text extraction failed returns an error message
\* without a run of the agent.
C30_AgentRunsIffRetrieved ==
    datasheet # NotCalled =>
        /\ datasheet.retrieved <=> datasheet.prompts # <<>>
        /\ datasheet.retrieved =>
               datasheet.prompts = <<Prompt(datasheet.page_content, datasheet.url)>>
====
